---- MODULE Spec2Model ----
(***************************************************************************)
(* Model of the breadboard ingestion pipeline: the Batch Processor         *)
(* (backend/processor.py, StreamProcessor), the Ingestion Queue            *)
(* (asyncio.Queue, backend/main.py) and the Feed Client                    *)
(* (backend/infrastructure/yahoo_client.py, YahooWebSocketClient).         *)
(*                                                                         *)
(* The program runs on one asyncio event loop: the code between two        *)
(* suspension points (await on the queue, on a callback that sends to a    *)
(* subscriber, on a socket, on a sleep) runs without interleaving, so each *)
(* action below is the code from one suspension point to the next.         *)
(*                                                                         *)
(* Time is counted in whole units; change_percent is counted in hundredths *)
(* of a percent, so -5.0 is -500 and -6.2 is -620.                         *)
(***************************************************************************)
EXTENDS Integers, Sequences, FiniteSets, TLC

(***************************************************************************)
(* Bounds of the model and configuration of the program.                   *)
(***************************************************************************)
\* ticks the feed delivers in one run of the model
MaxTicks == 3
\* storage write failures in one run of the model
MaxFailures == 1
\* StreamProcessor.batch_size (100 in main.py), scaled down
BatchSize == 2
\* StreamProcessor.batch_timeout (1.0 s in main.py), in time units
BatchTimeout == 2
\* asyncio.Queue(maxsize=10000), scaled down
QueueCap == 2
\* StreamProcessor.alert_threshold = -5.0, in hundredths of a percent
ALERT_THRESHOLD == -500
\* the clock stops counting the time since the last flush here
MaxElapsed == 2 * BatchTimeout + 1

\* Decoded frames the feed can deliver: symbol, change_percent (hundredths),
\* and whether price, volume, change_percent and time all convert.
TickInputs ==
    { [symbol |-> "AAPL", cp |-> -100, ok |-> TRUE],
      [symbol |-> "AAPL", cp |-> -620, ok |-> TRUE],
      [symbol |-> "NVDA", cp |-> -500, ok |-> TRUE],
      [symbol |-> "NVDA", cp |-> -700, ok |-> FALSE] }

VARIABLES
    queue,       \* message_queue: the decoded ticks waiting for the processor
    batch,       \* StreamProcessor.batch
    is_running,  \* StreamProcessor.is_running
    pc,          \* where run() is: idle, wait, alert, done
    waited,      \* time the current wait_for(queue.get()) has lasted
    elapsed,     \* current time - last_flush
    stop_called, \* lifespan has called processor.stop()
    failures,    \* storage writes that raised so far
    nextId,      \* sequence number of the next tick the feed delivers
    written,     \* records stored by successful insert_stock_prices_batch calls
    handed,      \* per tick: how often its record was passed to the insert
    appended,    \* every record ever appended to the batch, in order
    alerts,      \* every alert_data passed to _trigger_alert, in order
    dropped,     \* ticks rejected by put_nowait (logged "Queue full")
    sizeDue,     \* the batch reached batch_size and no flush was issued since
    fc,          \* where the Feed Client's run() is
    conns,       \* connect attempts the Feed Client has made so far
    sent,        \* what was sent on the current upstream connection
    frames,      \* inbound frames handled on the current connection
    delayDue,    \* a connection or attempt ended and sleep(5) has not run since
    ev           \* what the last step did

\* Alert dispatch (StreamProcessor._trigger_alert, AlertService.trigger_alert)
VARIABLES
    alert_callbacks, \* the registered callbacks (a set)
    dispatch,        \* the dispatch in progress or the last one made
    checked,         \* the last change_percent evaluated, with both verdicts
    regop            \* the last register / unregister call and its outcome

\* Fan-out (ConnectionManager and the /ws/realtime handlers)
VARIABLES
    active_connections, \* ConnectionManager.active_connections (a list)
    sub,                \* per subscriber: where its websocket_endpoint is
    bc,                 \* per broadcaster: the broadcast it is in, or its last
    delivered,          \* per subscriber: the events it has received, in order
    stuck,              \* subscribers whose sends never complete
    task_historical_service,  \* the name _historical_service of airflow_tasks
    dep_historical_service,   \* the global _historical_service of dependencies
    connects,           \* ClickHouse connections opened by the historical job
    inits,              \* calls of init_services made by the historical job
    ensure,             \* the last call of _ensure_services_initialized
    call,               \* the last call of fetch_symbol_historical_data
    job,                \* the run of fetch_all_symbols_historical_data
    disc,               \* the last call of ConnectionManager.disconnect
    resp                \* the last answer of GET /api/v1/stocks/{symbol}

feedVars == << fc, conns, sent, frames, delayDue >>

fanVars == << active_connections, sub, bc, delivered, stuck >>
histVars == << task_historical_service, dep_historical_service, connects,
              inits, ensure, call, job >>
apiVars == << disc, resp >>

alertVars == << alert_callbacks, dispatch, checked, regop >>

vars == << queue, batch, is_running, pc, waited, elapsed, stop_called,
           failures, nextId, written, handed, appended, alerts, dropped,
           sizeDue, fc, conns, sent, frames, delayDue, ev, alert_callbacks,
           dispatch, checked, regop, active_connections, sub, bc, delivered, stuck,
           task_historical_service, dep_historical_service, connects, inits,
           ensure, call, job, disc, resp >>

\* ev: the step (op), the batch or queue it started from (pre), the tick it
\* was about (id), whether _flush_batch was called (flush), the time since
\* the last flush it saw (at), the inserts it made (calls), and whether the
\* insert or the offer went through (ok)
NoEv == [op |-> "none", pre |-> << >>, id |-> 0, flush |-> FALSE, at |-> 0,
         calls |-> 0, ok |-> TRUE]

(***************************************************************************)
(* Pure helpers.                                                           *)
(***************************************************************************)
Abs(n) == IF n < 0 THEN -n ELSE n

Digit == << "0", "1", "2", "3", "4", "5", "6", "7", "8", "9" >>

RECURSIVE IntStr(_)
IntStr(n) == IF n < 10 THEN Digit[n + 1]
             ELSE IntStr(n \div 10) \o Digit[(n % 10) + 1]

\* f"{change_percent:.2f}" for a value given in hundredths
Format2f(cp) ==
    (IF cp < 0 THEN "-" ELSE "") \o IntStr(Abs(cp) \div 100) \o "."
        \o Digit[((Abs(cp) \div 10) % 10) + 1] \o Digit[(Abs(cp) % 10) + 1]

\* alert_data built in _process_message
AlertData(rec) ==
    [type |-> "price_drop", symbol |-> rec.symbol, change_percent |-> rec.cp,
     message |-> "Alert: " \o rec.symbol \o " dropped " \o Format2f(rec.cp) \o "%"]

\* the record _process_message builds from a message
Record(msg) == [id |-> msg.id, symbol |-> msg.symbol, cp |-> msg.cp]

\* variant: float() and int() take any value
ConvertsAlways(msg) == TRUE

\* _process_message, lines 52-59: float(price), int(volume),
\* float(change_percent) and int(time) all return; otherwise one of them
\* raises before the record is built
Converts(msg) == msg.ok

\* variant: the boundary does not alert
AlertConditionStrict(cp) == cp < ALERT_THRESHOLD

\* change_percent <= self.alert_threshold
AlertCondition(cp) == cp <= ALERT_THRESHOLD

\* variant: a queue without maxsize
PutNowaitUnbounded(q, t) == Append(q, t)

\* variant: the newest message is taken first
PutNowaitLifo(q, t) == IF Len(q) >= QueueCap THEN q ELSE << t >> \o q

\* variant: an accepted message is queued twice
PutNowaitTwice(q, t) == IF Len(q) >= QueueCap THEN q ELSE Append(Append(q, t), t)

\* asyncio.Queue.put_nowait: QueueFull (caught, logged) leaves the queue as is
PutNowait(q, t) == IF Len(q) >= QueueCap THEN q ELSE Append(q, t)

\* variant: the batch is cleared whether or not the insert returned
FlushBatchDiscard(b, ok) == << >>

\* _flush_batch: the batch afterwards; ok says whether the insert returned
FlushBatch(b, ok) == IF b = << >> THEN b ELSE IF ok THEN << >> ELSE b

\* variant: no early return for an empty batch
InsertCallsAlways(b) == 1

\* insert_stock_prices_batch calls one _flush_batch makes
InsertCalls(b) == IF b = << >> THEN 0 ELSE 1

\* variant: > in place of >=
ShouldFlushBySizeStrict(b) == Len(b) > BatchSize

\* len(self.batch) >= self.batch_size
ShouldFlushBySize(b) == Len(b) >= BatchSize

\* variant: > in place of >=
ShouldFlushByTimeStrict(e) == e > BatchTimeout

\* current_time - last_flush >= self.batch_timeout
ShouldFlushByTime(e) == e >= BatchTimeout

ShouldFlush(b, e) == ShouldFlushBySize(b) \/ ShouldFlushByTime(e)

\* variant: the loop does not look at the flag
LoopContinuesAlways(running) == TRUE

\* while self.is_running
LoopContinues(running) == running

\* variant: an exception in the loop body ends run()
OnLoopErrorExit == "done"

\* run(), lines 133-135: the outer except logs and suspends in sleep(1)
OnLoopError == "breaker"

\* variant: an error on the upstream connection ends the client's run()
OnFeedErrorExit == "stopped"

\* YahooWebSocketClient.run, the outer except: log and suspend in sleep(5)
OnFeedError == "backoff"

\* handed, after the records of b were passed to one insert call
Handed(h, b) ==
    [i \in DOMAIN h |->
        IF \E k \in 1..Len(b) : b[k].id = i THEN h[i] + 1 ELSE h[i]]

\* connection attempts of the Feed Client in one run of the model
MaxConns == 3

\* SYMBOLS_TO_TRACK
SYMBOLS_TO_TRACK ==
    << "AAPL", "BTC-USD", "NVDA", "TSLA", "META", "AMZN", "GOOGL", "MSFT",
       "SPY", "QQQ", "ETH-USD", "SOL-USD", "AMD", "NFLX", "COIN" >>

\* json.dumps({"subscribe": symbols})
SubscribeMessage == [subscribe |-> SYMBOLS_TO_TRACK]

\* variant: no subscribe request is sent
SendSubscribeSkipped(s) == s

\* await ws.send(subscribe message), on the messages sent so far
SendSubscribe(s) == Append(s, SubscribeMessage)

\* Inbound frames: a payload that is not base64 of a PricingData message,
\* and one well-formed frame per tick of TickInputs.
NoResult == [none |-> TRUE]

FrameInputs ==
    { [valid |-> FALSE, data |-> NoResult] }
        \cup { [valid |-> TRUE, data |-> t] : t \in TickInputs }

\* variant: an undecodable payload is passed on as a tick
DecodeMessageUnchecked(frame) ==
    IF frame.valid THEN frame.data
    ELSE [symbol |-> "UNKNOWN", cp |-> 0, ok |-> FALSE]

\* decode_message: the decoded dict, or None when b64decode or
\* ParseFromString raises
DecodeMessage(frame) == IF frame.valid THEN frame.data ELSE NoResult

(***************************************************************************)
(* The Alert Engine: the alert condition and the dispatch to callbacks.    *)
(***************************************************************************)
\* AlertService(threshold=-5.0), in hundredths of a percent
SERVICE_THRESHOLD == -500

\* variant: the boundary does not alert
check_alert_condition_strict(symbol, price, change_percent) ==
    change_percent < SERVICE_THRESHOLD

\* AlertService.check_alert_condition
check_alert_condition(symbol, price, change_percent) ==
    change_percent <= SERVICE_THRESHOLD

\* change_percent values a tick can carry: around the threshold, and far
\* from it on both sides
ChangeInputs == { -620, -501, -500, -499, -100, 0, 250 }

\* the callables that can be registered as alert callbacks
Callbacks == { "cb1", "cb2", "cb3" }

\* dispatch: idle, running, returned or raised (state); the callbacks the
\* loop has not visited yet (pending); the callback set the loop started
\* with (registered); calls made per callback (invoked); the callbacks that
\* raised (raisedIn); "Error in alert callback" lines logged (logged)
NoDispatch ==
    [state |-> "idle", pending |-> {}, registered |-> {},
     invoked |-> [c \in Callbacks |-> 0], raisedIn |-> {}, logged |-> 0]

NoCheck == [cp |-> 0, inline |-> FALSE, service |-> FALSE, done |-> FALSE]

\* regop: the call (op), its argument (cb), the callback set it found
\* (before) and whether it raised
NoRegop == [op |-> "none", cb |-> "none", before |-> {}, raised |-> FALSE]

\* set.add
SetAdd(cbs, cb) == [callbacks |-> cbs \cup {cb}, raises |-> FALSE]

\* variant: set.remove, which raises KeyError for an absent member
SetDiscardAsRemove(cbs, cb) ==
    [callbacks |-> cbs \ {cb}, raises |-> cb \notin cbs]

\* set.discard
SetDiscard(cbs, cb) == [callbacks |-> cbs \ {cb}, raises |-> FALSE]

\* the set iterator behind "for callback in self.alert_callbacks": a fetch
\* raises RuntimeError ("Set changed size during iteration") when the set
\* does not have the size it had when the loop began
SetIterRaises(registered, cbs) == Cardinality(cbs) # Cardinality(registered)

\* variant: no try/except around the call of the callback
CallbackResultUncaught(raises) == [logged |-> 0, propagates |-> raises]

\* the try/except of the loop body: a callback that raises Exception is
\* logged and the loop goes on
CallbackResult(raises) ==
    [logged |-> IF raises THEN 1 ELSE 0, propagates |-> FALSE]

(***************************************************************************)
(* Fan-out: ConnectionManager (api/websocket/realtime.py and main.py).     *)
(***************************************************************************)
\* websockets that connect to /ws/realtime in one run of the model
MaxSubs == 2

Subs == 1..MaxSubs

\* frames the feed delivers in one run of the fan-out model
MaxFrames == 2

\* the two callers of broadcast: the Feed Client (price_update) and
\* alert_broadcast_callback, awaited by the Batch Processor (alert)
Broadcasters == { "feed", "alert" }

Range(q) == { q[i] : i \in 1..Len(q) }

RECURSIVE Remove(_, _)
\* list.remove: the list without the first occurrence of x
Remove(l, x) ==
    IF l = << >> THEN l
    ELSE IF Head(l) = x THEN Tail(l) ELSE << Head(l) >> \o Remove(Tail(l), x)

\* variant: the websocket stays in the list
DisconnectKeeps(l, ws) == l

\* ConnectionManager.disconnect
Disconnect(l, ws) == IF ws \in Range(l) THEN Remove(l, ws) ELSE l

\* the list iterator behind "for connection in self.active_connections":
\* nxt is the position of the next fetch; the list is read at each fetch
ListIterNext(l, nxt) ==
    IF nxt <= Len(l) THEN [done |-> FALSE, item |-> l[nxt]]
    ELSE [done |-> TRUE, item |-> 0]

\* variant: no try/except around the send
OnSendFailureUncaught(l, ws) ==
    [connections |-> l, logged |-> 0, propagates |-> TRUE]

\* variant: the broadcaster drops the websocket it could not send to
OnSendFailurePrune(l, ws) ==
    [connections |-> Remove(l, ws), logged |-> 1, propagates |-> FALSE]

\* the except branch of broadcast: log; the list is left alone
OnSendFailure(l, ws) ==
    [connections |-> l, logged |-> 1, propagates |-> FALSE]

\* variant: the newest event is put in front of the earlier ones
DeliverFirst(log, message) == << message >> \o log

\* send_json returns: the peer has one more event at the end of its stream
Deliver(log, message) == Append(log, message)

\* the frames of the fan-out model: an undecodable one, a tick that does
\* not alert and a tick that does
FanFrameInputs ==
    { f \in FrameInputs : ~f.valid \/ f.data.symbol = "AAPL" }

\* {"type": ..., "data": ...}: the data is that of tick id
Message(type, id) == [type |-> type, id |-> id]

\* a broadcaster: idle, sending or raised (state); the event; the position
\* of the iterator's next fetch (nxt); the websocket the pending send goes
\* to (to); and, for the current or last broadcast: the list as it was when
\* the broadcast began (members), the websockets a send was made to
\* (attempted), those whose send raised (failed), the errors logged
\* (logged), and whether the list changed while it ran (changed)
NoBroadcast ==
    [state |-> "idle", message |-> Message("none", 0), nxt |-> 1, to |-> 0,
     members |-> << >>, attempted |-> {}, failed |-> {}, logged |-> 0,
     changed |-> FALSE]

\* the loop fetches the next websocket of list l and suspends in its
\* send_json, or finds the iterator exhausted and broadcast returns
Advance(b, l) ==
    LET n == ListIterNext(l, b.nxt)
    IN  IF n.done THEN [b EXCEPT !.state = "idle", !.to = 0]
        ELSE [b EXCEPT !.state = "sending", !.to = n.item, !.nxt = @ + 1,
                       !.attempted = @ \cup {n.item}]

\* variant: no broadcast is made
BeginBroadcastSkipped(message, l) == NoBroadcast

\* broadcast(message) is entered
BeginBroadcast(message, l) ==
    Advance([NoBroadcast EXCEPT !.message = message, !.members = l], l)

\* the pending send of b raised: the except branch, then the loop goes on
SendFailed(b, l) ==
    LET r == OnSendFailure(l, b.to)
        c == [b EXCEPT !.failed = @ \cup {b.to}, !.logged = @ + r.logged]
    IN  IF r.propagates THEN [c EXCEPT !.state = "raised", !.to = 0]
        ELSE Advance(c, r.connections)

\* a connect or disconnect while broadcasts are suspended in a send
Touched(b) ==
    [x \in Broadcasters |->
        IF b[x].state = "sending" THEN [b[x] EXCEPT !.changed = TRUE]
        ELSE b[x]]

(***************************************************************************)
(* The historical job: infrastructure/airflow_tasks.py.                    *)
(***************************************************************************)
MaxSymbols == 3
MaxRecords == 2
MaxConnects == 4

\* the fifteen symbols of DEFAULT_SYMBOLS
ALL_DEFAULT_SYMBOLS ==
    << "AAPL", "BTC-USD", "NVDA", "TSLA", "META", "AMZN", "GOOGL", "MSFT",
       "SPY", "QQQ", "ETH-USD", "SOL-USD", "AMD", "NFLX", "COIN" >>

\* DEFAULT_SYMBOLS, cut to the first MaxSymbols of its members
DEFAULT_SYMBOLS == SubSeq(ALL_DEFAULT_SYMBOLS, 1, MaxSymbols)

\* the symbols argument of fetch_all_symbols_historical_data; "None" is the
\* default of the parameter
SymbolsInputs ==
    { "None", << >>, << "TSLA" >>, << "NVDA", "AAPL" >>, << "META", "META" >> }

\* what ClickHouseConnection(...), connection.connect() and init_services
\* do when they are reached: they return, or one of them raises
InitOutcomes == { "ok", "raises" }

\* what get_historical_data gives for a symbol: it raises, it returns None,
\* a dict with no records, a dict of n records, or a dict whose records
\* lack a key that HistoricalDataCreate is built from
UpstreamInputs ==
    { [kind |-> k, n |-> 0] : k \in { "raises", "none", "empty" } }
      \cup { [kind |-> k, n |-> n] : k \in { "records", "malformed" },
                                       n \in 1..MaxRecords }

\* what save_historical_data does when it is reached
SaveOutcomes == { "ok", "raises" }

NoEnsure == [made |-> FALSE, opened |-> FALSE, inited |-> FALSE,
             raised |-> FALSE, afterSuccess |-> FALSE]

NoReturn == [status |-> "none"]

\* call: the result returned (NoReturn when the call raised), whether an
\* exception reached the caller, the part of the call that failed, the
\* records the upstream gave and the calls of save_historical_data made
NoCall == [made |-> FALSE, result |-> NoReturn, propagated |-> FALSE,
           failed |-> "none", upstream |-> "none", n |-> 0, saves |-> 0]

\* job: state is "idle", "running", "returned" or "raised"; symbols is the
\* list iterated, nxt the index of the next symbol, results the list built
\* so far and ret the dict returned
NoJob == [state |-> "idle", symbols |-> << >>, nxt |-> 1, results |-> << >>,
          ret |-> NoReturn]

\* _ensure_services_initialized, where binding is the value of the name
\* _historical_service in airflow_tasks and outcome what the initialisation
\* does if it is attempted
EnsureServicesInitialized(binding, outcome) ==
    IF binding = "None"
    THEN [opened |-> outcome = "ok", inited |-> outcome = "ok",
          raises |-> outcome # "ok"]
    ELSE [opened |-> FALSE, inited |-> FALSE, raises |-> FALSE]

\* init_services: the global of dependencies is rebound
InitServices(dep, e) == IF e.inited THEN "service" ELSE dep

\* the body of fetch_symbol_historical_data after its call of
\* _ensure_services_initialized (result e), with dep the global of
\* dependencies that get_historical_service reads
FetchSymbolHistoricalData(symbol, e, dep, upstream, save) ==
    IF e.raises
    THEN [NoCall EXCEPT !.made = TRUE, !.propagated = TRUE,
                        !.failed = "prepare"]
    ELSE IF upstream.kind = "raises"
    THEN [NoCall EXCEPT !.made = TRUE, !.failed = "fetch",
                        !.upstream = upstream.kind,
                        !.result = [status |-> "error", symbol |-> symbol,
                                    error |-> "fetch"]]
    ELSE IF upstream.kind \in { "none", "empty" }
    THEN [NoCall EXCEPT !.made = TRUE, !.upstream = upstream.kind,
                        !.result = [status |-> "no_data", symbol |-> symbol,
                                    records_inserted |-> 0]]
    ELSE IF dep = "None"
    THEN [NoCall EXCEPT !.made = TRUE, !.failed = "prepare",
                        !.upstream = upstream.kind, !.n = upstream.n,
                        !.result = [status |-> "error", symbol |-> symbol,
                                    error |-> "Services not initialized"]]
    ELSE IF upstream.kind = "malformed"
    THEN [NoCall EXCEPT !.made = TRUE, !.failed = "save",
                        !.upstream = upstream.kind, !.n = upstream.n,
                        !.result = [status |-> "error", symbol |-> symbol,
                                    error |-> "record"]]
    ELSE IF save = "raises"
    THEN [NoCall EXCEPT !.made = TRUE, !.failed = "save",
                        !.upstream = upstream.kind, !.n = upstream.n,
                        !.saves = 1,
                        !.result = [status |-> "error", symbol |-> symbol,
                                    error |-> "save"]]
    ELSE [NoCall EXCEPT !.made = TRUE, !.upstream = upstream.kind,
                        !.n = upstream.n, !.saves = 1,
                        !.result = [status |-> "success", symbol |-> symbol,
                                    records_inserted |-> upstream.n]]

(***************************************************************************)
(* The two versions of the HTTP and WebSocket layer: main.py (the FastAPI  *)
(* application that is run) and the routers of backend/api.                *)
(***************************************************************************)
Versions == { "main", "api" }

\* disc: the version called, the websocket, the list before and after the
\* call, and whether the call raised
NoDisconnect == [made |-> FALSE, version |-> "none", ws |-> 0,
                 before |-> << >>, after |-> << >>, raised |-> FALSE]

\* main.py, ConnectionManager.disconnect: list.remove, which raises
\* ValueError and leaves the list alone when the websocket is not in it
DisconnectMain(l, ws) ==
    [connections |-> Remove(l, ws), raises |-> ws \notin Range(l)]

\* api/websocket/realtime.py, ConnectionManager.disconnect
DisconnectApi(l, ws) == [connections |-> Disconnect(l, ws), raises |-> FALSE]

ManagerDisconnect(version, l, ws) ==
    IF version = "main" THEN DisconnectMain(l, ws) ELSE DisconnectApi(l, ws)

\* what the read of the latest row does: a row, no row, or it raises
ReadOutcomes == { "row", "none", "raises" }

\* resp: the version called, what the read did, and the HTTP status
NoResponse == [made |-> FALSE, version |-> "none", read |-> "none",
               status |-> 0]

\* what is raised inside the try of get_stock: nothing, the HTTPException
\* of the not-found branch, or the exception of the read
RaisedInTry(read) ==
    IF read = "raises" THEN "Exception"
    ELSE IF read = "none" THEN "HTTPException" ELSE "none"

\* main.py, get_stock: one handler, except Exception, which HTTPException
\* is a subclass of
GetStockMain(read) == IF RaisedInTry(read) = "none" THEN 200 ELSE 500

\* api/routes/stocks.py, get_stock: except HTTPException: raise, then
\* except Exception
GetStockApi(read) ==
    IF RaisedInTry(read) = "none" THEN 200
    ELSE IF RaisedInTry(read) = "HTTPException" THEN 404 ELSE 500

GetStockStatus(version, read) ==
    IF version = "main" THEN GetStockMain(read) ELSE GetStockApi(read)

(***************************************************************************)
(* Initial state: lifespan has built the queue and the processor.          *)
(***************************************************************************)
Init ==
    /\ queue = << >>
    /\ batch = << >>
    /\ is_running = FALSE
    /\ pc = "idle"
    /\ waited = 0
    /\ elapsed = 0
    /\ stop_called = FALSE
    /\ failures = 0
    /\ nextId = 1
    /\ written = << >>
    /\ handed = [i \in 1..MaxTicks |-> 0]
    /\ appended = << >>
    /\ alerts = << >>
    /\ dropped = << >>
    /\ sizeDue = FALSE
    /\ fc = "idle"
    /\ conns = 0
    /\ sent = << >>
    /\ frames = 0
    /\ delayDue = FALSE
    /\ ev = NoEv
    /\ alert_callbacks = {}
    /\ dispatch = NoDispatch
    /\ checked = NoCheck
    /\ regop = NoRegop
    /\ active_connections = << >>
    /\ sub = [s \in Subs |-> "new"]
    /\ bc = [b \in Broadcasters |-> NoBroadcast]
    /\ delivered = [s \in Subs |-> << >>]
    /\ stuck = {}
    /\ task_historical_service = "unbound"
    /\ dep_historical_service = "None"
    /\ connects = 0
    /\ inits = 0
    /\ ensure = NoEnsure
    /\ call = NoCall
    /\ job = NoJob
    /\ disc = NoDisconnect
    /\ resp = NoResponse

(***************************************************************************)
(* The Batch Processor.                                                    *)
(***************************************************************************)
\* run(), lines 105-110: set the flag, take last_flush, enter the loop and
\* suspend in wait_for(queue.get(), timeout=batch_timeout)
Start ==
    /\ pc = "idle"
    /\ is_running' = TRUE
    /\ elapsed' = 0
    /\ waited' = 0
    /\ pc' = "wait"
    /\ ev' = [NoEv EXCEPT !.op = "start"]
    /\ UNCHANGED << feedVars, alertVars, histVars, apiVars, fanVars, queue, batch, stop_called, failures, nextId, written,
                    handed, appended, alerts, dropped, sizeDue >>

\* run(), lines 122-131 and the loop test of line 110: the flush check on
\* batch b, then either the next wait on the queue or the end of run().
\* The insert returns (ok) or raises; no insert is made for an empty batch.
IterationEnd(b, due, op) ==
    LET flush == ShouldFlush(b, elapsed)
        calls == IF flush THEN InsertCalls(b) ELSE 0
    IN  \E ok \in BOOLEAN :
          /\ ~ok => (calls = 1 /\ failures < MaxFailures)
          /\ batch' = IF flush THEN FlushBatch(b, ok) ELSE b
          /\ elapsed' = IF flush THEN 0 ELSE elapsed
          /\ failures' = IF ok THEN failures ELSE failures + 1
          /\ written' = IF calls = 1 /\ ok THEN written \o b ELSE written
          /\ handed' = IF calls = 1 THEN Handed(handed, b) ELSE handed
          /\ sizeDue' = IF flush THEN FALSE ELSE due
          /\ pc' = IF LoopContinues(is_running) THEN "wait" ELSE "done"
          /\ waited' = 0
          /\ ev' = [op |-> op, pre |-> b, id |-> 0, flush |-> flush,
                    at |-> elapsed, calls |-> calls, ok |-> ok]

\* run(), lines 114-118 with _process_message: the wait on the queue ends
\* with a message. A message whose fields do not convert raises inside
\* _process_message, which logs and returns. An alert's callback may suspend
\* (alert_broadcast_callback awaits the sends of the broadcast).
RunTake ==
    /\ pc = "wait"
    /\ queue # << >>
    /\ LET msg == Head(queue)
           b == IF Converts(msg) THEN Append(batch, Record(msg)) ELSE batch
           fires == Converts(msg) /\ AlertCondition(msg.cp)
           due == sizeDue \/ (Converts(msg) /\ Len(b) >= BatchSize)
       IN  /\ queue' = Tail(queue)
           /\ appended' = IF Converts(msg) THEN Append(appended, Record(msg))
                          ELSE appended
           /\ alerts' = IF fires THEN Append(alerts, AlertData(Record(msg)))
                        ELSE alerts
           /\ \E suspend \in BOOLEAN :
                /\ suspend => fires
                /\ IF suspend
                   THEN /\ pc' = "alert"
                        /\ batch' = b
                        /\ sizeDue' = due
                        /\ ev' = [NoEv EXCEPT !.op = "take", !.pre = b]
                        /\ UNCHANGED << elapsed, waited, failures, written,
                                        handed >>
                   ELSE IterationEnd(b, due, "take")
    /\ UNCHANGED << feedVars, alertVars, histVars, apiVars, fanVars, is_running, stop_called, nextId, dropped >>

\* the awaited alert callback returns: _process_message returns, task_done,
\* then the flush check
CallbackReturn ==
    /\ pc = "alert"
    /\ IterationEnd(batch, sizeDue, "resume")
    /\ UNCHANGED << feedVars, alertVars, histVars, apiVars, fanVars, queue, is_running, stop_called, nextId, appended, alerts,
                    dropped >>

\* run(), lines 119-120: the wait on the queue ends with TimeoutError
RunTimeout ==
    /\ pc = "wait"
    /\ queue = << >>
    /\ waited >= BatchTimeout
    /\ IterationEnd(batch, sizeDue, "timeout")
    /\ UNCHANGED << feedVars, alertVars, histVars, apiVars, fanVars, queue, is_running, stop_called, nextId, appended, alerts,
                    dropped >>

\* stop(): clear the flag and flush what the batch holds
Stop ==
    /\ ~stop_called
    /\ pc \in {"wait", "alert"}
    /\ is_running' = FALSE
    /\ stop_called' = TRUE
    /\ \E ok \in BOOLEAN :
         /\ ~ok => (InsertCalls(batch) = 1 /\ failures < MaxFailures)
         /\ batch' = FlushBatch(batch, ok)
         /\ failures' = IF ok THEN failures ELSE failures + 1
         /\ written' = IF InsertCalls(batch) = 1 /\ ok THEN written \o batch
                       ELSE written
         /\ handed' = IF InsertCalls(batch) = 1 THEN Handed(handed, batch)
                      ELSE handed
         /\ ev' = [op |-> "stop", pre |-> batch, id |-> 0, flush |-> TRUE,
                   at |-> elapsed, calls |-> InsertCalls(batch), ok |-> ok]
    /\ sizeDue' = FALSE
    /\ UNCHANGED << feedVars, alertVars, histVars, apiVars, fanVars, queue, pc, waited, elapsed, nextId, appended, alerts,
                    dropped >>

\* lifespan, after stop(): processor_task.cancel() ends run() at the
\* suspension point it is waiting in
Cancel ==
    /\ stop_called
    /\ pc \in {"wait", "alert"}
    /\ pc' = "done"
    /\ ev' = [NoEv EXCEPT !.op = "cancel"]
    /\ UNCHANGED << feedVars, alertVars, histVars, apiVars, fanVars, queue, batch, is_running, waited, elapsed, stop_called,
                    failures, nextId, written, handed, appended, alerts,
                    dropped, sizeDue >>

\* the wait on the queue raises something other than TimeoutError (a queue
\* bound to another event loop, a failing queue handed to the constructor):
\* the flush check of this iteration is skipped
RunLoopError ==
    /\ pc = "wait"
    /\ pc' = OnLoopError
    /\ ev' = [NoEv EXCEPT !.op = "loop_error"]
    /\ UNCHANGED << feedVars, alertVars, histVars, apiVars, fanVars, queue, batch, is_running,
                    waited, elapsed, stop_called, failures, nextId, written,
                    handed, appended, alerts, dropped, sizeDue >>

\* sleep(1) returns: the loop tests is_running and waits on the queue again
BreakerDone ==
    /\ pc = "breaker"
    /\ pc' = IF LoopContinues(is_running) THEN "wait" ELSE "done"
    /\ waited' = 0
    /\ ev' = [NoEv EXCEPT !.op = "breaker_done"]
    /\ UNCHANGED << feedVars, alertVars, histVars, apiVars, fanVars, queue, batch, is_running,
                    elapsed, stop_called, failures, nextId, written, handed,
                    appended, alerts, dropped, sizeDue >>

\* the Feed Client offers a decoded tick: put_nowait, or the drop when full
Offer ==
    /\ nextId <= MaxTicks
    /\ \E t \in TickInputs :
         LET msg == [id |-> nextId, symbol |-> t.symbol, cp |-> t.cp,
                     ok |-> t.ok]
         IN  /\ queue' = PutNowait(queue, msg)
             /\ dropped' = IF Len(queue) >= QueueCap
                           THEN Append(dropped, nextId) ELSE dropped
             /\ ev' = [NoEv EXCEPT !.op = "offer", !.pre = queue,
                                   !.id = nextId,
                                   !.ok = (Len(queue) < QueueCap)]
    /\ nextId' = nextId + 1
    /\ UNCHANGED << feedVars, alertVars, histVars, apiVars, fanVars, batch, is_running, pc, waited, elapsed, stop_called,
                    failures, written, handed, appended, alerts, sizeDue >>

\* one unit of time passes. A message in the queue wakes the waiting run()
\* at once and the timeout fires when it is due, so time does not pass over
\* either.
ClockTick ==
    /\ pc \in {"wait", "alert"}
    /\ pc = "wait" => (queue = << >> /\ waited < BatchTimeout)
    /\ elapsed < MaxElapsed
    /\ elapsed' = elapsed + 1
    /\ waited' = IF pc = "wait" THEN waited + 1 ELSE waited
    /\ ev' = [NoEv EXCEPT !.op = "clock"]
    /\ UNCHANGED << feedVars, alertVars, histVars, apiVars, fanVars, queue, batch, is_running, pc, stop_called, failures,
                    nextId, written, handed, appended, alerts, dropped,
                    sizeDue >>

(***************************************************************************)
(* The Feed Client: YahooWebSocketClient.run (and the same loop in         *)
(* main.yahoo_websocket_handler).                                          *)
(***************************************************************************)
FeedEv(op) == [NoEv EXCEPT !.op = op]

procVars == << batch, is_running, pc, waited, elapsed, stop_called, failures,
               written, handed, appended, alerts, sizeDue >>

\* the variables of the ingestion pipeline
pipeVars == << procVars, feedVars, queue, nextId, dropped, ev >>

\* the task starts: while True, enter websockets.connect
FeedStart ==
    /\ fc = "idle"
    /\ conns < MaxConns
    /\ fc' = "connecting"
    /\ ev' = FeedEv("feed_start")
    /\ UNCHANGED << procVars, alertVars, histVars, apiVars, fanVars, queue, nextId, dropped, conns, sent, frames,
                    delayDue >>

\* websockets.connect returns a connection, or raises: the outer except
\* logs and suspends in sleep(5)
FeedConnect ==
    /\ fc = "connecting"
    /\ \E opened \in BOOLEAN :
         IF opened
         THEN /\ fc' = "subscribing"
              /\ conns' = conns + 1
              /\ sent' = << >>
              /\ frames' = 0
              /\ delayDue' = delayDue
              /\ ev' = FeedEv("connected")
         ELSE /\ fc' = OnFeedError
              /\ conns' = conns + 1
              /\ delayDue' = TRUE
              /\ ev' = FeedEv("connect_failed")
              /\ UNCHANGED << sent, frames >>
    /\ UNCHANGED << procVars, alertVars, histVars, apiVars, fanVars, queue, nextId, dropped >>

\* await ws.send(json.dumps({"subscribe": symbols})) returns, or raises
FeedSubscribe ==
    /\ fc = "subscribing"
    /\ \E done \in BOOLEAN :
         IF done
         THEN /\ fc' = "subscribed"
              /\ sent' = SendSubscribe(sent)
              /\ delayDue' = delayDue
              /\ ev' = FeedEv("subscribe")
         ELSE /\ fc' = OnFeedError
              /\ delayDue' = TRUE
              /\ ev' = FeedEv("send_failed")
              /\ UNCHANGED sent
    /\ UNCHANGED << procVars, alertVars, histVars, apiVars, fanVars, queue, nextId, dropped, conns, frames >>

\* the body of "async for message in ws" for one frame: decode; a decoded
\* tick is offered to the queue (or dropped and logged) and broadcast
FeedFrame ==
    /\ fc = "subscribed"
    /\ nextId <= MaxTicks
    /\ \E frame \in FrameInputs :
         LET decoded == DecodeMessage(frame)
             msg == [id |-> nextId, symbol |-> decoded.symbol,
                     cp |-> decoded.cp, ok |-> decoded.ok]
         IN  IF decoded = NoResult
             THEN /\ ev' = [NoEv EXCEPT !.op = "frame_undecoded",
                                        !.pre = queue, !.id = nextId]
                  /\ UNCHANGED << queue, dropped >>
             ELSE /\ queue' = PutNowait(queue, msg)
                  /\ dropped' = IF Len(queue) >= QueueCap
                                THEN Append(dropped, nextId) ELSE dropped
                  /\ ev' = [NoEv EXCEPT !.op = "frame", !.pre = queue,
                                        !.id = nextId,
                                        !.ok = (Len(queue) < QueueCap)]
    /\ nextId' = nextId + 1
    /\ frames' = frames + 1
    /\ UNCHANGED << procVars, alertVars, histVars, apiVars, fanVars, fc, conns, sent, delayDue >>

\* the iteration over ws raises (ConnectionClosedError, a read failure):
\* the outer except logs and suspends in sleep(5)
FeedReadError ==
    /\ fc = "subscribed"
    /\ fc' = OnFeedError
    /\ delayDue' = TRUE
    /\ ev' = FeedEv("read_error")
    /\ UNCHANGED << procVars, alertVars, histVars, apiVars, fanVars, queue, nextId, dropped, conns, sent, frames >>

\* the server closes the stream normally: the iteration over ws ends
\* without raising, the "async with" block is left and "while True" enters
\* websockets.connect again
FeedClosed ==
    /\ fc = "subscribed"
    /\ conns < MaxConns
    /\ fc' = "connecting"
    /\ delayDue' = TRUE
    /\ ev' = FeedEv("closed")
    /\ UNCHANGED << procVars, alertVars, histVars, apiVars, fanVars, queue, nextId, dropped, conns, sent, frames >>

\* sleep(5) returns: "while True" enters websockets.connect again
FeedBackoffDone ==
    /\ fc = "backoff"
    /\ conns < MaxConns
    /\ fc' = "connecting"
    /\ delayDue' = FALSE
    /\ ev' = FeedEv("backoff_done")
    /\ UNCHANGED << procVars, alertVars, histVars, apiVars, fanVars, queue, nextId, dropped, conns, sent, frames >>

(***************************************************************************)
(* Alert dispatch: _process_message lines 72-85 with _trigger_alert, and   *)
(* AlertService.check_alert_condition / trigger_alert. The callback set is *)
(* changed only between dispatches here.                                   *)
(***************************************************************************)
\* register_alert_callback / register_callback: set.add
RegisterCallback ==
    /\ dispatch.state # "running"
    /\ \E cb \in Callbacks :
         /\ alert_callbacks' = SetAdd(alert_callbacks, cb).callbacks
         /\ regop' = [op |-> "register", cb |-> cb,
                      before |-> alert_callbacks,
                      raised |-> SetAdd(alert_callbacks, cb).raises]
    /\ UNCHANGED << pipeVars, histVars, apiVars, fanVars, dispatch, checked >>

\* unregister_alert_callback / unregister_callback: set.discard
UnregisterCallback ==
    /\ dispatch.state # "running"
    /\ \E cb \in Callbacks :
         /\ alert_callbacks' = SetDiscard(alert_callbacks, cb).callbacks
         /\ regop' = [op |-> "unregister", cb |-> cb,
                      before |-> alert_callbacks,
                      raised |-> SetDiscard(alert_callbacks, cb).raises]
    /\ UNCHANGED << pipeVars, histVars, apiVars, fanVars, dispatch, checked >>

\* a tick is evaluated: the inline check of _process_message decides
\* whether _trigger_alert is entered; the service check is applied to the
\* same value
AlertEvaluate ==
    /\ dispatch.state # "running"
    /\ \E cp \in ChangeInputs :
         /\ checked' = [cp |-> cp, inline |-> AlertCondition(cp),
                        service |-> check_alert_condition("AAPL", 100, cp),
                        done |-> TRUE]
         /\ dispatch' = IF AlertCondition(cp)
                        THEN [NoDispatch EXCEPT !.state = "running",
                                                !.pending = alert_callbacks,
                                                !.registered = alert_callbacks]
                        ELSE NoDispatch
    /\ UNCHANGED << pipeVars, histVars, apiVars, fanVars, alert_callbacks, regop >>

\* one turn of "for callback in self.alert_callbacks": the set hands out
\* its members in no particular order; the callback returns or raises
AlertInvoke ==
    /\ dispatch.state = "running"
    /\ dispatch.pending # {}
    /\ \E cb \in dispatch.pending, raises \in BOOLEAN :
         LET r == CallbackResult(raises)
         IN  dispatch' =
               IF SetIterRaises(dispatch.registered, alert_callbacks)
               THEN [dispatch EXCEPT !.pending = {}, !.state = "raised"]
               ELSE [dispatch EXCEPT
                       !.invoked[cb] = @ + 1,
                       !.raisedIn = IF raises THEN @ \cup {cb} ELSE @,
                       !.logged = @ + r.logged,
                       !.pending = IF r.propagates THEN {} ELSE @ \ {cb},
                       !.state = IF r.propagates THEN "raised" ELSE @]
    /\ UNCHANGED << pipeVars, histVars, apiVars, fanVars, alert_callbacks, checked, regop >>

\* the last fetch: the loop has visited every member and _trigger_alert
\* returns, or the fetch raises and _trigger_alert ends by the exception
AlertReturn ==
    /\ dispatch.state = "running"
    /\ dispatch.pending = {}
    /\ dispatch' = [dispatch EXCEPT !.state =
                       IF SetIterRaises(dispatch.registered, alert_callbacks)
                       THEN "raised" ELSE "returned"]
    /\ UNCHANGED << pipeVars, histVars, apiVars, fanVars, alert_callbacks, checked, regop >>

\* the dispatch has called at least one callback: the loop is inside a
\* callback, or has just come back from one
InCallback ==
    /\ dispatch.state = "running"
    /\ \E cb \in Callbacks : dispatch.invoked[cb] > 0

\* register_alert_callback called by the running callback, or by another
\* task while the callback is awaited. Whether the loop comes to the new
\* member depends on where the set stores it (visited); a callback put
\* back takes the place it had, which the loop has passed if it has called
\* the callback and has not if not.
RegisterInDispatch ==
    /\ InCallback
    /\ \E cb \in Callbacks, visited \in BOOLEAN :
         /\ alert_callbacks' = SetAdd(alert_callbacks, cb).callbacks
         /\ regop' = [op |-> "register", cb |-> cb,
                      before |-> alert_callbacks,
                      raised |-> SetAdd(alert_callbacks, cb).raises]
         /\ dispatch' = IF /\ cb \notin alert_callbacks
                           /\ visited \/ cb \in dispatch.registered
                           /\ dispatch.invoked[cb] = 0
                        THEN [dispatch EXCEPT !.pending = @ \cup {cb}]
                        ELSE dispatch
    /\ UNCHANGED << pipeVars, histVars, apiVars, fanVars, checked >>

\* unregister_alert_callback called in the same way: a member the loop has
\* not come to yet is not handed out any more
UnregisterInDispatch ==
    /\ InCallback
    /\ \E cb \in Callbacks :
         /\ alert_callbacks' = SetDiscard(alert_callbacks, cb).callbacks
         /\ regop' = [op |-> "unregister", cb |-> cb,
                      before |-> alert_callbacks,
                      raised |-> SetDiscard(alert_callbacks, cb).raises]
         /\ dispatch' = [dispatch EXCEPT !.pending = @ \ {cb}]
    /\ UNCHANGED << pipeVars, histVars, apiVars, fanVars, checked >>

(***************************************************************************)
(* Fan-out: the Feed Client and the alert callback of main.py              *)
(* (alert_broadcast_callback) broadcasting to the /ws/realtime             *)
(* subscribers. Every send_json is a suspension point.                     *)
(***************************************************************************)
\* the pending send of broadcaster x returns (ok) or raises
SendDone(x, ok) ==
    /\ delivered' = IF ok THEN [delivered EXCEPT
                                  ![bc[x].to] = Deliver(@, bc[x].message)]
                     ELSE delivered
    /\ active_connections' =
          IF ok THEN active_connections
          ELSE OnSendFailure(active_connections, bc[x].to).connections
    /\ bc' = [bc EXCEPT ![x] = IF ok THEN Advance(@, active_connections)
                                ELSE SendFailed(@, active_connections)]

\* the body of "async for message in ws" for one frame, with
\* manager.broadcast as the broadcast function: decode; a decoded tick is
\* offered to the queue and its price_update broadcast is entered
Frame ==
    /\ fc = "subscribed"
    /\ bc["feed"].state # "sending"
    /\ \E frame \in FanFrameInputs :
         LET decoded == DecodeMessage(frame)
             msg == [id |-> nextId, symbol |-> decoded.symbol,
                     cp |-> decoded.cp, ok |-> decoded.ok]
         IN  IF decoded = NoResult
             THEN /\ ev' = [NoEv EXCEPT !.op = "frame_undecoded",
                                        !.pre = queue, !.id = nextId]
                  /\ UNCHANGED << queue, dropped, bc >>
             ELSE /\ queue' = PutNowait(queue, msg)
                  /\ dropped' = IF Len(queue) >= QueueCap
                                THEN Append(dropped, nextId) ELSE dropped
                  /\ ev' = [NoEv EXCEPT !.op = "frame", !.pre = queue,
                                        !.id = nextId,
                                        !.ok = (Len(queue) < QueueCap)]
                  /\ bc' = [bc EXCEPT !["feed"] =
                              BeginBroadcast(Message("price_update", nextId),
                                             active_connections)]
    /\ nextId' = nextId + 1
    /\ frames' = frames + 1
    /\ UNCHANGED << procVars, alertVars, histVars, apiVars, fc, conns, sent, delayDue,
                    active_connections, sub, delivered, stuck >>

\* a frame arrives while run() drains the queue
FanFrame ==
    /\ nextId <= MaxFrames
    /\ Frame

\* a frame arrives while nothing drains the queue
FloodFrame ==
    /\ nextId <= MaxTicks
    /\ Frame

\* a send of the Feed Client's broadcast completes; the loop goes to the
\* next websocket, or broadcast returns and the client reads on
FeedSendDone ==
    /\ bc["feed"].state = "sending"
    /\ bc["feed"].to \notin stuck
    /\ \E ok \in BOOLEAN :
         /\ ok => sub[bc["feed"].to] = "open"
         /\ SendDone("feed", ok)
    /\ ev' = FeedEv("send_done")
    /\ UNCHANGED << procVars, alertVars, histVars, apiVars, feedVars, queue, nextId, dropped,
                    sub, stuck >>

\* run() takes a message, as RunTake does, with alert_broadcast_callback as
\* the registered callback: an alert enters the broadcast of its event.
\* Storage takes every batch in this part of the model.
FanTake ==
    /\ pc = "wait"
    /\ queue # << >>
    /\ LET msg == Head(queue)
           b == IF Converts(msg) THEN Append(batch, Record(msg)) ELSE batch
           fires == Converts(msg) /\ AlertCondition(msg.cp)
           due == sizeDue \/ (Converts(msg) /\ Len(b) >= BatchSize)
           nb == BeginBroadcast(Message("alert", msg.id), active_connections)
       IN  /\ queue' = Tail(queue)
           /\ appended' = IF Converts(msg) THEN Append(appended, Record(msg))
                          ELSE appended
           /\ alerts' = IF fires THEN Append(alerts, AlertData(Record(msg)))
                        ELSE alerts
           /\ bc' = IF fires THEN [bc EXCEPT !["alert"] = nb] ELSE bc
           /\ IF fires /\ nb.state = "sending"
              THEN /\ pc' = "alert"
                   /\ batch' = b
                   /\ sizeDue' = due
                   /\ ev' = [NoEv EXCEPT !.op = "take", !.pre = b]
                   /\ UNCHANGED << elapsed, waited, failures, written,
                                   handed >>
              ELSE IterationEnd(b, due, "take")
    /\ failures' = failures
    /\ UNCHANGED << feedVars, alertVars, histVars, apiVars, is_running, stop_called, nextId,
                    dropped, active_connections, sub, delivered, stuck >>

\* a send of the alert broadcast completes; the loop goes to the next
\* websocket, or the callback returns and run() goes on to its flush check
AlertSendDone ==
    /\ pc = "alert"
    /\ bc["alert"].state = "sending"
    /\ bc["alert"].to \notin stuck
    /\ \E ok \in BOOLEAN :
         /\ ok => sub[bc["alert"].to] = "open"
         /\ SendDone("alert", ok)
         /\ IF bc'["alert"].state = "sending"
            THEN /\ ev' = FeedEv("send_done")
                 /\ UNCHANGED << batch, pc, waited, elapsed, failures,
                                 written, handed, sizeDue >>
            ELSE IterationEnd(batch, sizeDue, "resume")
    /\ failures' = failures
    /\ UNCHANGED << feedVars, alertVars, histVars, apiVars, queue, is_running, stop_called,
                    nextId, appended, alerts, dropped, sub, stuck >>

\* websocket_endpoint: manager.connect. accept() returns and the websocket
\* is appended, or accept() raises and the handler ends
FanConnect ==
    \E ws \in Subs :
      /\ sub[ws] = "new"
      /\ \E accepted \in BOOLEAN :
           IF accepted
           THEN /\ active_connections' = Append(active_connections, ws)
                /\ sub' = [sub EXCEPT ![ws] = "open"]
                /\ bc' = Touched(bc)
                /\ ev' = FeedEv("connect")
           ELSE /\ sub' = [sub EXCEPT ![ws] = "closed"]
                /\ ev' = FeedEv("refused")
                /\ UNCHANGED << active_connections, bc >>
      /\ UNCHANGED << procVars, alertVars, histVars, apiVars, feedVars, queue, nextId, dropped,
                      delivered, stuck >>

\* websocket_endpoint: receive_text (or the pong) raises
\* WebSocketDisconnect or another Exception: manager.disconnect
FanDisconnect ==
    \E ws \in Subs :
      /\ sub[ws] = "open"
      /\ active_connections' = Disconnect(active_connections, ws)
      /\ sub' = [sub EXCEPT ![ws] = "closed"]
      /\ bc' = Touched(bc)
      /\ ev' = FeedEv("disconnect")
      /\ UNCHANGED << procVars, alertVars, histVars, apiVars, feedVars, queue, nextId, dropped,
                      delivered, stuck >>

\* a subscriber with a send pending stops reading: from now on no send to
\* it completes
FanStall ==
    \E ws \in Subs :
      /\ \E x \in Broadcasters : bc[x].state = "sending" /\ bc[x].to = ws
      /\ ws \notin stuck
      /\ stuck' = stuck \cup {ws}
      /\ ev' = FeedEv("stall")
      /\ UNCHANGED << procVars, alertVars, histVars, apiVars, feedVars, queue, nextId, dropped,
                      active_connections, sub, bc, delivered >>

Next ==
    \/ Start
    \/ RunTake
    \/ CallbackReturn
    \/ RunTimeout
    \/ Stop
    \/ Cancel
    \/ Offer
    \/ ClockTick

Spec == Init /\ [][Next]_vars

\* the Feed Client filling the queue and the Batch Processor draining it
FeedNext ==
    \/ FeedStart
    \/ FeedConnect
    \/ FeedSubscribe
    \/ FeedFrame
    \/ FeedReadError
    \/ FeedClosed
    \/ FeedBackoffDone
    \/ Start
    \/ RunTake
    \/ CallbackReturn

FeedSpec == Init /\ [][FeedNext]_vars

\* ticks evaluated one after the other, with callbacks coming and going
AlertNext ==
    \/ RegisterCallback
    \/ UnregisterCallback
    \/ AlertEvaluate
    \/ AlertInvoke
    \/ AlertReturn

AlertSpec == Init /\ [][AlertNext]_vars

\* the same, with callbacks also registered and unregistered while a
\* dispatch is in progress
ReentrantNext ==
    \/ RegisterCallback
    \/ UnregisterCallback
    \/ AlertEvaluate
    \/ AlertInvoke
    \/ AlertReturn
    \/ RegisterInDispatch
    \/ UnregisterInDispatch

ReentrantSpec == Init /\ [][ReentrantNext]_vars

\* ticks arriving and being processed back-to-back: no time passes, so no
\* wait on the queue times out and no flush is due by time
BurstNext ==
    \/ Start
    \/ Offer
    \/ RunTake
    \/ CallbackReturn

BurstSpec == Init /\ [][BurstNext]_vars

\* run() with failing storage and exceptions in the loop body, no time
\* passing
BreakerNext ==
    \/ Start
    \/ Offer
    \/ RunTake
    \/ CallbackReturn
    \/ RunLoopError
    \/ BreakerDone
    \/ Stop

BreakerSpec == Init /\ [][BreakerNext]_vars

\* the pipeline of main.py with its subscribers: feed, queue, processor and
\* the two broadcasts
FanNext ==
    \/ FeedStart
    \/ FeedConnect
    \/ FeedSubscribe
    \/ FanFrame
    \/ FeedSendDone
    \/ Start
    \/ FanTake
    \/ AlertSendDone
    \/ FanConnect
    \/ FanDisconnect
    \/ FanStall

FanSpec == Init /\ [][FanNext]_vars

\* the Feed Client and its subscribers with the queue filling up: run() has
\* not started to take messages
FloodNext ==
    \/ FeedStart
    \/ FeedConnect
    \/ FeedSubscribe
    \/ FloodFrame
    \/ FeedSendDone
    \/ FanConnect
    \/ FanDisconnect

FloodSpec == Init /\ [][FloodNext]_vars

(***************************************************************************)
(* The historical job: the import of airflow_tasks and its functions.      *)
(***************************************************************************)
\* the state left by one call of _ensure_services_initialized
Ensured(e) ==
    /\ connects' = connects + (IF e.opened THEN 1 ELSE 0)
    /\ inits' = inits + (IF e.inited THEN 1 ELSE 0)
    /\ dep_historical_service' = InitServices(dep_historical_service, e)
    /\ ensure' = [made |-> TRUE, opened |-> e.opened, inited |-> e.inited,
                  raised |-> e.raises,
                  afterSuccess |-> ensure.made /\
                                     (ensure.afterSuccess \/ ~ensure.raised)]
    /\ UNCHANGED task_historical_service

\* from backend.api.dependencies import _historical_service: the name of
\* airflow_tasks is bound to the value the global has at the import
ImportTasks ==
    /\ task_historical_service = "unbound"
    /\ task_historical_service' = dep_historical_service
    /\ UNCHANGED << pipeVars, alertVars, fanVars, apiVars, dep_historical_service,
                    connects, inits, ensure, call, job >>

\* fetch_symbol_historical_data called on its own
FetchSymbol ==
    /\ task_historical_service # "unbound"
    /\ job.state # "running"
    /\ connects < MaxConnects
    /\ \E symbol \in { "AAPL", "NVDA" }, outcome \in InitOutcomes,
          upstream \in UpstreamInputs, save \in SaveOutcomes :
         LET e == EnsureServicesInitialized(task_historical_service, outcome)
         IN  /\ Ensured(e)
             /\ call' = FetchSymbolHistoricalData(
                            symbol, e, dep_historical_service', upstream, save)
    /\ UNCHANGED << pipeVars, alertVars, fanVars, apiVars, job >>

\* fetch_all_symbols_historical_data up to its loop
FetchAllStart ==
    /\ task_historical_service # "unbound"
    /\ job.state # "running"
    /\ connects < MaxConnects
    /\ \E symbols \in SymbolsInputs, outcome \in InitOutcomes :
         LET e == EnsureServicesInitialized(task_historical_service, outcome)
         IN  /\ Ensured(e)
             /\ job' = [NoJob EXCEPT
                          !.state = IF e.raises THEN "raised" ELSE "running",
                          !.symbols = IF symbols = "None" THEN DEFAULT_SYMBOLS
                                      ELSE symbols]
    /\ UNCHANGED << pipeVars, alertVars, fanVars, apiVars, call >>

\* one iteration of the loop of fetch_all_symbols_historical_data
FetchAllStep ==
    /\ job.state = "running"
    /\ job.nxt <= Len(job.symbols)
    /\ \E outcome \in InitOutcomes, upstream \in UpstreamInputs,
          save \in SaveOutcomes :
         LET e == EnsureServicesInitialized(task_historical_service, outcome)
             c == FetchSymbolHistoricalData(job.symbols[job.nxt], e,
                      InitServices(dep_historical_service, e), upstream, save)
         IN  /\ Ensured(e)
             /\ call' = c
             /\ job' = IF c.propagated
                       THEN [job EXCEPT !.state = "raised"]
                       ELSE [job EXCEPT !.nxt = @ + 1,
                                        !.results = Append(@, c.result)]
    /\ UNCHANGED << pipeVars, alertVars, fanVars, apiVars >>

\* the end of the loop and the return
FetchAllReturn ==
    /\ job.state = "running"
    /\ job.nxt > Len(job.symbols)
    /\ job' = [job EXCEPT !.state = "returned",
                          !.ret = [status |-> "completed",
                                   total_symbols |-> Len(job.symbols),
                                   results |-> job.results]]
    /\ UNCHANGED << pipeVars, alertVars, fanVars, apiVars, task_historical_service,
                    dep_historical_service, connects, inits, ensure, call >>

HistNext ==
    \/ ImportTasks
    \/ FetchSymbol
    \/ FetchAllStart
    \/ FetchAllStep
    \/ FetchAllReturn

HistSpec == Init /\ [][HistNext]_vars

(***************************************************************************)
(* The HTTP and WebSocket layer: disconnect calls and the latest-price     *)
(* endpoint.                                                               *)
(***************************************************************************)
\* manager.disconnect(websocket), for a websocket that is in the list or
\* not (not connected yet, or disconnected before)
DisconnectCall ==
    /\ \E version \in Versions, ws \in Subs :
         LET r == ManagerDisconnect(version, active_connections, ws)
         IN  /\ active_connections' = r.connections
             /\ sub' = [sub EXCEPT ![ws] = IF @ = "open" THEN "closed" ELSE @]
             /\ disc' = [made |-> TRUE, version |-> version, ws |-> ws,
                         before |-> active_connections,
                         after |-> r.connections, raised |-> r.raises]
    /\ bc' = Touched(bc)
    /\ ev' = FeedEv("disconnect")
    /\ UNCHANGED << procVars, alertVars, histVars, feedVars, queue, nextId,
                    dropped, delivered, stuck, resp >>

\* GET /api/v1/stocks/{symbol}
GetStock ==
    /\ \E version \in Versions, read \in ReadOutcomes :
         resp' = [made |-> TRUE, version |-> version, read |-> read,
                  status |-> GetStockStatus(version, read)]
    /\ UNCHANGED << pipeVars, alertVars, histVars, fanVars, disc >>

ApiNext ==
    \/ FanConnect
    \/ DisconnectCall
    \/ GetStock

ApiSpec == Init /\ [][ApiNext]_vars

(***************************************************************************)
(* Properties.                                                             *)
(***************************************************************************)
Last(q) == q[Len(q)]

C2_BatchBounded == Len(batch) <= BatchSize

C4_NoLossOnShutdown ==
    (pc = "done" /\ failures = 0) =>
        /\ batch = << >>
        /\ \A k \in 1..Len(appended) : handed[appended[k].id] >= 1

\* C5: when an append makes the batch reach batch_size, a flush is issued
\* before run() waits on the queue again, whatever time has elapsed.
C5_SizeTrigger == pc = "wait" => ~sizeDue

C5_Witness ==
    /\ ev.op = "take"
    /\ Len(ev.pre) >= BatchSize
    /\ ev.at < BatchTimeout
    /\ ev.flush
    /\ ev.calls = 1
    /\ pc = "wait"

\* C6 (as stated): while the processor runs and ticks arrive more than
\* batch_timeout apart or not at all (here: at most one tick has arrived and
\* no alert callback has run), no more than batch_timeout passes without a
\* flush.
C6_FlushEveryTimeout ==
    (pc = "wait" /\ is_running /\ nextId <= 2 /\ alerts = << >>) =>
        elapsed <= BatchTimeout

\* C6 (amended): at the start of every wait on the queue less than
\* batch_timeout has passed since the last flush, and a wait lasts at most
\* batch_timeout, so while run() waits on the queue less than twice
\* batch_timeout has passed since the last flush; with no tick at all a flush
\* is issued every batch_timeout.
C6_TimeTrigger ==
    pc = "wait" =>
        /\ waited <= BatchTimeout
        /\ elapsed < BatchTimeout + waited
        /\ elapsed < 2 * BatchTimeout
        /\ nextId = 1 => elapsed <= BatchTimeout

C6_Witness == pc = "wait" /\ is_running /\ elapsed = 2 * BatchTimeout - 1

\* C7: the queue never holds more than its capacity; handling a frame never
\* waits for room in the queue; when the queue is full exactly the offered
\* tick is rejected, the drop is logged and the queue is as it was.
C7_QueueBounded ==
    /\ Len(queue) <= QueueCap
    /\ (ev.op = "frame" /\ Len(ev.pre) >= QueueCap) =>
          /\ queue = ev.pre
          /\ ~ev.ok
          /\ dropped # << >>
          /\ Last(dropped) = ev.id
    /\ (ev.op = "frame" /\ Len(ev.pre) < QueueCap) =>
          /\ Len(queue) = Len(ev.pre) + 1
          /\ SubSeq(queue, 1, Len(ev.pre)) = ev.pre
          /\ Last(queue).id = ev.id
          /\ \A k \in 1..Len(dropped) : dropped[k] # ev.id
    /\ ev.op = "frame" => fc = "subscribed"
    /\ (fc = "subscribed" /\ nextId <= MaxTicks) => ENABLED FeedFrame

C7_Witness ==
    ev.op = "frame" /\ ~ev.ok /\ Len(queue) = QueueCap /\ dropped # << >>

\* C8: a connect attempt never starts after a connection or a connect
\* attempt ended unless the backoff sleep has run in between.
C8_BackoffBeforeReconnect == fc = "connecting" => ~delayDue

\* C9: on every connection, reconnects included, exactly one subscribe
\* request naming every tracked symbol is sent before any inbound frame of
\* that connection is handled; a new connection starts with nothing sent.
C9_SubscribeFirst ==
    /\ fc = "subscribing" => (sent = << >> /\ frames = 0)
    /\ (fc = "subscribed" \/ frames > 0) =>
          /\ Len(sent) = 1
          /\ sent[1].subscribe = SYMBOLS_TO_TRACK

C9_Witness == fc = "subscribed" /\ conns >= 2 /\ frames > 0

\* the alerts the claim expects for a sequence of appended records
RECURSIVE ExpectedAlerts(_)
ExpectedAlerts(recs) ==
    IF recs = << >> THEN << >>
    ELSE LET r == Head(recs)
         IN  (IF r.cp <= ALERT_THRESHOLD
              THEN << [type |-> "price_drop", symbol |-> r.symbol,
                       change_percent |-> r.cp,
                       message |-> "Alert: " \o r.symbol \o " dropped "
                                       \o Format2f(r.cp) \o "%"] >>
              ELSE << >>) \o ExpectedAlerts(Tail(recs))

\* C10: the alerts dispatched are exactly those of the processed ticks whose
\* change_percent is at or below the threshold, one each, in tick order, with
\* the message "Alert: {symbol} dropped {change_percent:.2f}%".
C10_AlertsMatchTicks ==
    /\ alerts = ExpectedAlerts(appended)
    /\ \A k \in 1..Len(alerts) :
          (alerts[k].symbol = "AAPL" /\ alerts[k].change_percent = -620) =>
              alerts[k].message = "Alert: AAPL dropped -6.20%"

C10_Witness ==
    /\ Len(appended) >= 2
    /\ appended[1].cp = -100
    /\ appended[2].cp = -620
    /\ Len(alerts) = 1
    /\ alerts[1].message = "Alert: AAPL dropped -6.20%"

\* C11: the alert condition is true exactly for a change_percent at or below
\* the threshold, the threshold itself included, both in
\* AlertService.check_alert_condition and in the inline check of
\* _process_message (which alone decides whether a dispatch starts).
C11_AlertIffAtOrBelowThreshold ==
    checked.done =>
        /\ checked.service <=> (checked.cp - -500 <= 0)
        /\ checked.inline <=> (checked.cp - -500 <= 0)
        /\ checked.cp = -500 => (checked.service /\ checked.inline)
        /\ (dispatch.state = "idle") <=> (checked.cp > -500)

C11_Witness ==
    /\ checked.done /\ checked.cp = -500
    /\ checked.service /\ checked.inline /\ dispatch.state = "running"

\* C12: a dispatch calls every registered callback exactly once, whichever
\* of them raise; each raise is logged, none leaves the dispatch, and the
\* next tick can be evaluated afterwards.
C12_EveryCallbackInvokedOnce ==
    /\ dispatch.state # "raised"
    /\ \A cb \in Callbacks : dispatch.invoked[cb] <= 1
    /\ dispatch.state = "returned" =>
          /\ \A cb \in Callbacks :
                dispatch.invoked[cb] = IF cb \in dispatch.registered THEN 1 ELSE 0
          /\ dispatch.logged = Cardinality(dispatch.raisedIn)
          /\ ENABLED AlertEvaluate

C12_Witness ==
    /\ dispatch.state = "returned"
    /\ Cardinality(dispatch.registered) = 3
    /\ Cardinality(dispatch.raisedIn) = 2
    /\ dispatch.logged = 2

\* C13: a send that raises during a broadcast is logged and the broadcast
\* goes on to every other websocket of the list: a broadcast during which
\* the list did not change has made a send to every member once it returns
\* (and to every member before the iterator's position while it runs),
\* whichever sends raised. No broadcast ends by raising, and the Feed
\* Client reads its next frame after the broadcast.
C13_SendFailureIsolated ==
    /\ \A x \in Broadcasters :
          /\ bc[x].state # "raised"
          /\ bc[x].failed \subseteq bc[x].attempted
          /\ bc[x].logged = Cardinality(bc[x].failed)
          /\ ~bc[x].changed =>
                bc[x].attempted =
                    IF bc[x].state = "idle" THEN Range(bc[x].members)
                    ELSE { bc[x].members[i] : i \in 1..(bc[x].nxt - 1) }
    /\ (bc["feed"].state = "idle" /\ fc = "subscribed" /\ nextId <= MaxFrames)
          => ENABLED FanFrame

C13_Witness ==
    /\ bc["feed"].state = "idle" /\ ~bc["feed"].changed
    /\ Len(bc["feed"].members) = 2
    /\ bc["feed"].failed = { bc["feed"].members[1] }
    /\ bc["feed"].attempted = Range(bc["feed"].members)
    /\ delivered[bc["feed"].members[2]] # << >>

\* C14: no step of a broadcast (entering it from the Feed Client or from
\* the alert callback, a send returning or raising) changes
\* active_connections; the list changes only in connect and disconnect,
\* and loses a member only in disconnect.
C14_BroadcastLeavesListAlone ==
    [][ /\ (FanFrame \/ FeedSendDone \/ FanTake \/ AlertSendDone)
            => active_connections' = active_connections
        /\ active_connections' # active_connections
            => (FanConnect \/ FanDisconnect)
        /\ ~(Range(active_connections) \subseteq Range(active_connections'))
            => FanDisconnect ]_vars

C14_Witness ==
    \E x \in Broadcasters :
        /\ bc[x].state = "idle" /\ ~bc[x].changed
        /\ bc[x].failed # {}
        /\ bc[x].failed \subseteq Range(active_connections)
        /\ active_connections = bc[x].members

\* C15: with connects and disconnects between the sends of a broadcast the
\* list holds exactly the websockets that connected and did not disconnect,
\* each once; no broadcast raises, and a broadcast whose pending send is
\* not stuck can always go on.
C15_ListExactUnderInterleaving ==
    /\ Range(active_connections) = { ws \in Subs : sub[ws] = "open" }
    /\ Len(active_connections) = Cardinality(Range(active_connections))
    /\ \A x \in Broadcasters : bc[x].state # "raised"
    /\ (bc["feed"].state = "sending" /\ bc["feed"].to \notin stuck)
          => ENABLED FeedSendDone
    /\ (bc["alert"].state = "sending" /\ bc["alert"].to \notin stuck)
          => ENABLED AlertSendDone

C15_Witness ==
    /\ bc["feed"].state = "idle" /\ bc["feed"].changed
    /\ bc["feed"].members = << 1 >>
    /\ sub[1] = "closed" /\ sub[2] = "open"
    /\ active_connections = << 2 >>

\* C16: a broadcast whose pending send never completes has still made a
\* send to every other websocket of the list, and the Feed Client can still
\* take its next frame.
C16_StuckSubscriberDoesNotStall ==
    \A x \in Broadcasters :
        (bc[x].state = "sending" /\ bc[x].to \in stuck) =>
            /\ Range(active_connections) \subseteq bc[x].attempted
            /\ (x = "feed" /\ fc = "subscribed" /\ nextId <= MaxFrames)
                  => ENABLED FanFrame

\* position of tick id in the order in which run() evaluated the ticks
EvalPos(id) == CHOOSE k \in 1..Len(appended) : appended[k].id = id

\* C18: in what any one subscriber has received, the price_update events
\* are in the order the Feed Client decoded their ticks and the alert
\* events in the order the Batch Processor evaluated theirs.
C18_PerSubscriberOrder ==
    \A ws \in Subs :
        \A i, j \in 1..Len(delivered[ws]) :
            LET a == delivered[ws][i]
                b == delivered[ws][j]
            IN  (i < j /\ a.type = b.type) =>
                    IF a.type = "price_update" THEN a.id < b.id
                    ELSE EvalPos(a.id) < EvalPos(b.id)

C18_Witness ==
    \E ws \in Subs :
        /\ sub[ws] = "open"
        /\ Len(delivered[ws]) = 4
        /\ Cardinality({ i \in 1..4 : delivered[ws][i].type = "alert" }) = 2

\* the tick ids of a sequence of messages or records
Ids(q) == [k \in 1..Len(q) |-> q[k].id]

Increasing(q) == \A i, j \in 1..Len(q) : i < j => q[i] < q[j]

IsOk(msg) == msg.ok

\* C17: with the one producer numbering the ticks it offers, the records
\* appended to the batch followed by the convertible ticks still queued are
\* in the order of acceptance; what storage has taken followed by the batch
\* is what was appended, in that order; and every batch handed to the
\* insert is in that order too.
C17_StorageInAcceptanceOrder ==
    /\ Increasing(Ids(appended) \o Ids(SelectSeq(queue, IsOk)))
    /\ written \o batch = appended
    /\ Increasing(Ids(written))
    /\ ev.calls = 1 => Increasing(Ids(ev.pre))

C17_Witness ==
    /\ Len(written) = 3
    /\ ev.op = "timeout" /\ ev.calls = 1 /\ ev.ok /\ Len(ev.pre) = 1
    /\ dropped = << >>

\* C19: no tick's record is handed to insert_stock_prices_batch more than
\* once.
C19_HandedAtMostOnce == \A i \in 1..MaxTicks : handed[i] <= 1

\* C20: stop() can always run, whatever the queue holds, and leaves the
\* queue alone; a wait on the queue lasts at most batch_timeout and can
\* always end; and once stop() has run, the end of a wait on the queue is
\* followed by no further wait: run() is in the callback of the message it
\* took, or is over, with whatever the queue still holds.
C20_ShutdownTerminates ==
    /\ (pc \in {"wait", "alert"} /\ ~stop_called) => ENABLED Stop
    /\ pc = "wait" =>
          /\ waited <= BatchTimeout
          /\ ENABLED (RunTake \/ RunTimeout \/ ClockTick)
    /\ stop_called =>
          /\ ~is_running
          /\ ev.op \in {"timeout", "resume"} => pc = "done"
          /\ ev.op = "take" => pc \in {"done", "alert"}
    /\ pc = "done" => ~ENABLED (RunTake \/ RunTimeout \/ CallbackReturn)

C20_Witness ==
    /\ stop_called /\ pc = "done"
    /\ ev.op = "take"
    /\ queue # << >>

\* the fields of a queued message that come from the decoded frame
Payload(msg) == [symbol |-> msg.symbol, cp |-> msg.cp, ok |-> msg.ok]

\* C21: a frame that does not decode is dropped: the queue and the record
\* of rejected ticks are as before, no broadcast is entered for it, the
\* client is still subscribed on the same connection and takes the next
\* frame; whatever is queued was decoded from a well-formed frame.
C21_UndecodableFrameDropped ==
    /\ \A k \in 1..Len(queue) : Payload(queue[k]) \in TickInputs
    /\ ev.op = "frame_undecoded" =>
          /\ queue = ev.pre
          /\ ev.id \notin Range(dropped)
          /\ bc["feed"].message.id # ev.id
          /\ bc["feed"].state # "sending"
          /\ fc = "subscribed" /\ Len(sent) = 1 /\ frames > 0
          /\ nextId <= MaxTicks => ENABLED FloodFrame

C21_Witness ==
    /\ ev.op = "frame" /\ ev.id = 2 /\ frames = 2
    /\ Len(queue) = 1 /\ queue[1].id = 2
    /\ bc["feed"].message = Message("price_update", 2)
    /\ \A ws \in Subs : \A k \in 1..Len(delivered[ws]) :
          delivered[ws][k].id # 1

\* C22: for every decoded tick the price_update broadcast is entered with
\* the list as it is, whether put_nowait took the tick or the queue was
\* full; the client stays subscribed.
C22_BroadcastWhateverTheQueue ==
    ev.op = "frame" =>
        /\ bc["feed"].message = Message("price_update", ev.id)
        /\ bc["feed"].members = active_connections
        /\ fc = "subscribed" /\ Len(sent) = 1
        /\ IF active_connections = << >> THEN bc["feed"].state = "idle"
           ELSE /\ bc["feed"].state = "sending"
                /\ bc["feed"].to = active_connections[1]
        /\ ~ev.ok => (queue = ev.pre /\ Last(dropped) = ev.id)

C22_Witness ==
    /\ ev.op = "frame" /\ ~ev.ok
    /\ Len(queue) = QueueCap /\ Last(dropped) = ev.id
    /\ bc["feed"].state = "sending"
    /\ bc["feed"].message = Message("price_update", ev.id)

\* C23: with storage taking every batch and N records appended with no
\* time passing, between two iterations of run() storage holds
\* floor(N / batch_size) * batch_size records, handed over in flushes of
\* exactly batch_size records each, every record once, and the batch holds
\* the other N mod batch_size records.
C23_FlushCountBySize ==
    failures = 0 =>
        /\ (ev.flush /\ ev.calls = 1) => Len(ev.pre) = BatchSize
        /\ pc = "wait" =>
              /\ Len(written) = (Len(appended) \div BatchSize) * BatchSize
              /\ Len(batch) = Len(appended) % BatchSize
              /\ written \o batch = appended
              /\ \A k \in 1..Len(written) : handed[written[k].id] = 1
              /\ \A k \in 1..Len(batch) : handed[batch[k].id] = 0

C23_Witness ==
    /\ failures = 0 /\ pc = "wait" /\ BatchSize = 2
    /\ Len(appended) = 3 /\ Len(written) = 2 /\ Len(batch) = 1
    /\ batch[1] = appended[3]

\* ticks put_nowait has taken so far
Accepted == { i \in 1..(nextId - 1) : i \notin Range(dropped) }

C29_FeedNeverStops ==
    /\ fc \in {"idle", "connecting", "subscribing", "subscribed", "backoff"}
    /\ ev.op \in {"connect_failed", "send_failed", "read_error"}
          => fc = "backoff"
    /\ ev.op \in {"closed", "backoff_done"} => fc = "connecting"
    /\ ev.op \in {"frame", "frame_undecoded"} => fc = "subscribed"
    /\ (fc = "backoff" /\ conns < MaxConns) => ENABLED FeedBackoffDone
    /\ fc = "connecting" => ENABLED FeedConnect
    /\ fc = "subscribing" => ENABLED FeedSubscribe
    /\ fc = "subscribed" =>
          /\ ENABLED FeedReadError
          /\ conns < MaxConns => ENABLED FeedClosed
          /\ nextId <= MaxTicks => ENABLED FeedFrame

C29_Witness ==
    /\ ev.op = "backoff_done" /\ fc = "connecting"
    /\ conns = 2 /\ nextId > 1 /\ frames > 0

\* C30: run() is over only after stop(). A failed insert leaves run()
\* waiting on the queue (or over, after stop()); an exception that escapes
\* the loop body puts run() in the breaker sleep, during which nothing is
\* taken, and after it run() waits on the queue again; a waiting run() can
\* always take a queued message.
C30_LoopSurvivesErrors ==
    /\ pc \in {"idle", "wait", "alert", "breaker", "done"}
    /\ pc = "done" => stop_called
    /\ ~stop_called =>
          /\ (ev.flush /\ ~ev.ok) => (pc = "wait" /\ is_running)
          /\ ev.op = "loop_error" => pc = "breaker"
          /\ ev.op = "breaker_done" => (pc = "wait" /\ is_running)
    /\ pc = "breaker" =>
          /\ ~ENABLED RunTake
          /\ ENABLED BreakerDone
    /\ (pc = "wait" /\ queue # << >>) => ENABLED RunTake

C30_Witness ==
    /\ failures = 1 /\ ev.op = "take" /\ pc = "wait" /\ is_running
    /\ Len(appended) = 3 /\ batch = << >> /\ Len(written) = 3

\* C25: registering a callback that is registered leaves the callback set
\* as it was, and a dispatch calls that callback once; unregistering takes
\* the callback out of the set, so that no later dispatch calls it;
\* unregistering a callback that is not registered leaves the set as it was;
\* neither call raises.
C25_RegistrationIsASet ==
    /\ ~regop.raised
    /\ regop.op = "register" =>
          /\ alert_callbacks = regop.before \cup {regop.cb}
          /\ regop.cb \in regop.before => alert_callbacks = regop.before
    /\ regop.op = "unregister" =>
          /\ alert_callbacks = regop.before \ {regop.cb}
          /\ regop.cb \notin regop.before => alert_callbacks = regop.before
    /\ dispatch.state = "running" => dispatch.registered = alert_callbacks
    /\ dispatch.state = "returned" =>
          \A cb \in Callbacks :
              dispatch.invoked[cb] = IF cb \in dispatch.registered THEN 1 ELSE 0

C25_Witness ==
    /\ regop.op = "register" /\ regop.cb \in regop.before
    /\ dispatch.state = "returned" /\ dispatch.registered = alert_callbacks
    /\ dispatch.invoked[regop.cb] = 1
    /\ \E cb \in Callbacks : cb \notin alert_callbacks /\ dispatch.invoked[cb] = 0

\* C26: a call of fetch_symbol_historical_data raises nothing to its caller:
\* a failure while preparing, fetching or saving gives a result of status
\* "error" for the symbol; an absent or empty upstream result gives
\* "no_data" with records_inserted 0 and no save; otherwise the records are
\* saved once and the result is "success" with their count.
C26_FetchSymbolNeverRaises ==
    call.made =>
        /\ ~call.propagated
        /\ call.failed # "none" => call.result.status = "error"
        /\ (call.failed = "none" /\ call.upstream \in { "none", "empty" }) =>
              /\ call.result.status = "no_data"
              /\ call.result.records_inserted = 0
              /\ call.saves = 0
        /\ (call.failed = "none" /\ call.upstream = "records") =>
              /\ call.result.status = "success"
              /\ call.result.records_inserted = call.n
              /\ call.saves = 1

\* C27: a run of fetch_all_symbols_historical_data goes through every symbol
\* of its list: it does not end by an exception, and it returns "completed",
\* the number of symbols and one result per symbol, in the order of the list.
C27_EverySymbolProcessed ==
    /\ job.state # "raised"
    /\ job.state = "returned" =>
          /\ job.ret.status = "completed"
          /\ job.ret.total_symbols = Len(job.symbols)
          /\ Len(job.ret.results) = Len(job.symbols)
          /\ \A i \in 1..Len(job.symbols) :
                 job.ret.results[i].symbol = job.symbols[i]

\* C28: once a call of _ensure_services_initialized has returned without
\* raising, a later call opens no connection and does not call
\* init_services.
C28_InitialisedOnce ==
    ensure.afterSuccess => ~ensure.opened /\ ~ensure.inited

\* C31: a flush issued on an empty batch makes no insert call and raises
\* nothing (run() goes on to its loop test, not to the breaker sleep), the
\* batch stays empty, and in run() the time since the last flush is counted
\* from that flush check.
C31_EmptyFlushIsNoOp ==
    (ev.flush /\ ev.pre = << >>) =>
        /\ ev.calls = 0
        /\ ev.ok
        /\ batch = << >>
        /\ pc # "breaker"
        /\ ev.op # "stop" => elapsed = 0

C31_Witness ==
    /\ ev.op = "timeout" /\ ev.flush /\ ev.pre = << >>
    /\ ev.at >= BatchTimeout /\ elapsed = 0
    /\ written # << >>

\* C32: a wait on the queue that ends by its timeout does not lead to the
\* breaker sleep, and the flush check of that iteration issues a flush: a
\* batch that is not empty is passed to the insert, and is stored and
\* cleared when the insert returns.
C32_TimeoutFlushes ==
    ev.op = "timeout" =>
        /\ pc \in { "wait", "done" }
        /\ ev.at >= BatchTimeout
        /\ ev.flush
        /\ elapsed = 0
        /\ ev.pre # << >> =>
              /\ ev.calls = 1
              /\ \A k \in 1..Len(ev.pre) : handed[ev.pre[k].id] >= 1
              /\ ev.ok => batch = << >> /\ Len(written) >= Len(ev.pre)
                          /\ SubSeq(written, Len(written) - Len(ev.pre) + 1,
                                    Len(written)) = ev.pre

C32_Witness ==
    /\ ev.op = "timeout" /\ ev.pre # << >> /\ ev.calls = 1 /\ ev.ok
    /\ Len(ev.pre) < BatchSize /\ written = ev.pre

\* C35: while the awaited alert callback has not returned, a batch that is
\* not empty is still flushed within the time threshold and run() can still
\* take the next tick from the queue.
C35_FlushIndependentOfCallback ==
    pc = "alert" =>
        /\ batch # << >> => elapsed < 2 * BatchTimeout
        /\ queue # << >> => ENABLED RunTake

\* C37: when run() takes a tick whose fields do not convert, no record is
\* appended, no alert is dispatched, the flush check of that iteration sees
\* the batch as it was before the tick, and run() goes on to its loop test
\* (the next wait on the queue, or the end after stop()), not to the
\* breaker sleep.
C37_MalformedTickDropped ==
    [][(pc = "wait" /\ queue # << >> /\ ~Head(queue).ok
            /\ queue' = Tail(queue)) =>
          /\ appended' = appended
          /\ alerts' = alerts
          /\ ev'.op = "take" /\ ev'.pre = batch
          /\ batch' = IF ev'.flush THEN FlushBatch(batch, ev'.ok) ELSE batch
          /\ pc' \in { "wait", "done" }]_vars

\* the one tick delivered was taken and left no record, with a batch that
\* was due by time
C37_Witness ==
    /\ ev.op = "take" /\ nextId = 2 /\ queue = << >> /\ dropped = << >>
    /\ appended = << >> /\ alerts = << >> /\ batch = << >>
    /\ ev.flush /\ pc = "wait"

\* C33: when a broadcast has returned, every websocket that was in the list
\* when the broadcast began and is still in it (a websocket connects once,
\* so it was in the list all the while) has had a send of that event made
\* to it, whatever connected or disconnected while the broadcast was
\* suspended in a send.
C33_NoSubscriberSkipped ==
    \A x \in Broadcasters :
        (bc[x].state = "idle" /\ bc[x].message.type # "none") =>
            \A ws \in Range(bc[x].members) \cap Range(active_connections) :
                ws \in bc[x].attempted

\* C34: in what a subscriber has received, the alert of a tick never stands
\* before the price_update of the same tick.
C34_AlertAfterPriceUpdate ==
    \A ws \in Subs :
        \A k, j \in 1..Len(delivered[ws]) :
            (k < j /\ delivered[ws][k].type = "alert"
                   /\ delivered[ws][j].type = "price_update") =>
                delivered[ws][k].id # delivered[ws][j].id

\* C36: a dispatch during which callbacks were registered or unregistered
\* is not ended by an exception: it returns, and every callback that was
\* registered when it began and is registered when it returns has been
\* called.
C36_DispatchSurvivesRegistration ==
    [][(dispatch.state = "running" /\ dispatch'.state # "running") =>
          /\ dispatch'.state = "returned"
          /\ \A cb \in dispatch.registered \cap alert_callbacks' :
                 dispatch'.invoked[cb] >= 1]_vars

\* C38: no call of disconnect raises, and a call for a websocket that is
\* not in the list leaves the list as it was, so that a second disconnect
\* of a websocket ends in the state the first one left.
C38_DisconnectIdempotent ==
    disc.made =>
        /\ ~disc.raised
        /\ disc.ws \notin Range(disc.after)
        /\ disc.ws \notin Range(disc.before) => disc.after = disc.before

\* C39: the latest-price endpoint answers 404 when the read finds no row,
\* 500 when the read raises, and the row otherwise.
C39_NotFoundIs404 ==
    resp.made =>
        /\ resp.read = "none" => resp.status = 404
        /\ resp.read = "raises" => resp.status = 500
        /\ resp.read = "row" => resp.status = 200
====
